---- MODULE Spec2Model ----
(***************************************************************************)
(* Model of client/src/lib/srl-tax-calculator.ts: calculateSRLTaxes and    *)
(* the helpers it calls.                                                   *)
(*                                                                         *)
(* Numbers.  The program computes in IEEE doubles.  Here every currency    *)
(* amount is an integer number of thousandths of a euro ("mills"), so that *)
(* the sub-cent digits which Math.round(x * 100) / 100 removes exist in    *)
(* the model.  A product with a rate, or a division, is rounded to the     *)
(* nearest mill.  Rates are kept as the fractions they denote (0.24 is     *)
(* 6/25).  Percentages in results (iresRate, irapRate) are integers in     *)
(* hundredths, resp. ten-thousandths.                                      *)
(*                                                                         *)
(* Optional fields.  An optional field of the input is <<>> when absent    *)
(* and <<v>> when present.  The same shape carries a number that may be    *)
(* NaN: <<>> is NaN, <<n>> is the number n.                                *)
(*                                                                         *)
(* Time.  A time value (Date.getTime) is counted in half days since        *)
(* 2000-01-01T00:00Z: even values are midnights UTC, odd values are noons. *)
(* Date strings "dd/mm/yyyy" are the tuples <<dd, mm, yyyy>>.              *)
(***************************************************************************)
EXTENDS Integers, Sequences, FiniteSets, TLC

VARIABLES input, today, pc, income, taxes, acconti, calendar2025, paymentSchedule, result

vars == <<input, today, pc, income, taxes, acconti, calendar2025, paymentSchedule, result>>

(***************************************************************************)
(* Arithmetic                                                              *)
(***************************************************************************)
Euro(n) == n * 1000

Max(a, b) == IF a >= b THEN a ELSE b

Min(a, b) == IF a <= b THEN a ELSE b

Abs(a) == IF a < 0 THEN 0 - a ELSE a

\* x * (n / d), to the nearest mill; written so that no intermediate
\* product leaves the 32-bit range for n, d below 10^4.
Mul(x, n, d) == (x \div d) * n + (((x % d) * n + (d \div 2)) \div d)

\* Math.round(x * 100) / 100: Math.round rounds a half towards +infinity.
Round2(x) == ((x + 5) \div 10) * 10

\* Math.ceil(n * 0.01) for an integer head count n.
CeilPercent(n) == (n + 99) \div 100

Absent == <<>>

Some(v) == <<v>>

NaN == <<>>

Num(n) == <<n>>

\* JavaScript's  x || d  on an optional number: d when x is undefined or 0.
OrElse(x, d) == IF x = Absent THEN d ELSE IF x[1] = 0 THEN d ELSE x[1]

\* JavaScript truthiness of an optional number.
Truthy(x) == x # Absent /\ x[1] # 0

(***************************************************************************)
(* Dates                                                                   *)
(***************************************************************************)
IsLeap(y) == (y % 4 = 0 /\ y % 100 # 0) \/ y % 400 = 0

LeapsBefore(y) == ((y - 1) \div 4) - ((y - 1) \div 100) + ((y - 1) \div 400)

DaysBeforeMonth(y, m) ==
    LET cum == <<0, 31, 59, 90, 120, 151, 181, 212, 243, 273, 304, 334>>
    IN  cum[m] + (IF m > 2 /\ IsLeap(y) THEN 1 ELSE 0)

\* new Date("yyyy-mm-dd").getTime(): midnight UTC of that day.
DateUTC(y, m, d) ==
    2 * (365 * (y - 2000) + (LeapsBefore(y) - LeapsBefore(2000))
         + DaysBeforeMonth(y, m) + (d - 1))

\* new Date(s.split('/').reverse().join('-')).getTime() for s = "dd/mm/yyyy".
DateTime(s) ==
    LET iso == <<s[3], s[2], s[1]>>
    IN  DateUTC(iso[1], iso[2], iso[3])

\* Date.prototype.getFullYear of a time value.
GetFullYear(t) == CHOOSE y \in 1990..2100 : DateUTC(y, 1, 1) <= t /\ t < DateUTC(y + 1, 1, 1)

\* new Date(text).getTime() for the start-date texts the model supplies:
\* an ISO date is parsed, anything else is an Invalid Date (NaN).
DateParse(text) ==
    CASE text = "2023-06-01" -> Num(DateUTC(2023, 6, 1))
      [] text = "2024-12-31" -> Num(DateUTC(2024, 12, 31))
      [] text = "2025-03-15" -> Num(DateUTC(2025, 3, 15))
      [] OTHER -> NaN

\* new Date(text).getFullYear(): NaN for an Invalid Date.
ParsedYear(text) ==
    LET t == DateParse(text)
    IN  IF t = NaN THEN NaN ELSE Num(GetFullYear(t[1]))

(***************************************************************************)
(* Rate tables                                                             *)
(***************************************************************************)
\* IRAP_RATES, in hundredths of a percent.
IRAP_RATES ==
    [PIEMONTE |-> 390, VALLE_AOSTA |-> 390, LOMBARDIA |-> 390, TRENTINO |-> 268,
     VENETO |-> 408, FRIULI |-> 390, LIGURIA |-> 390, EMILIA_ROMAGNA |-> 465,
     TOSCANA |-> 390, UMBRIA |-> 390, MARCHE |-> 473, LAZIO |-> 482,
     ABRUZZO |-> 482, MOLISE |-> 482, CAMPANIA |-> 497, PUGLIA |-> 482,
     BASILICATA |-> 390, CALABRIA |-> 482, SICILIA |-> 390, SARDEGNA |-> 293]

\* VAT_REGIMES[...].frequency
VAT_REGIMES == [MENSILE |-> 12, TRIMESTRALE |-> 4]

(***************************************************************************)
(* Helpers of calculateSRLTaxes                                            *)
(***************************************************************************)
\* checkIresPremialeConditions: the test reads the raw input.fiscalYear.
checkIresPremialeConditions(inp) ==
    IF inp.fiscalYear # Some(2025)
    THEN [isApplicable |-> FALSE, details |-> Absent]
    ELSE
      LET utile2024 == OrElse(inp.utile2024, 0)
          utile2023 == OrElse(inp.utile2023, 0)
          requiredReserve == Mul(utile2024, 4, 5)
          condition1 == utile2024 > 0 /\ requiredReserve > 0
          investmentFromReserve == Mul(requiredReserve, 3, 10)
          investmentFrom2023 == Mul(utile2023, 6, 25)
          requiredInvestment ==
              Max(Max(investmentFromReserve, investmentFrom2023), Euro(20000))
          actualInvestment == OrElse(inp.investimentiPrevisti, 0)
          condition2 == actualInvestment >= requiredInvestment
          mediaULA2022_2024 == OrElse(inp.mediaULA2022_2024, 0)
          ulaStimate2025 == OrElse(inp.dipendentiTempo2024, 0)
          condition3 == mediaULA2022_2024 > 0 /\ ulaStimate2025 >= mediaULA2022_2024
          dipendenti2024 == OrElse(inp.dipendentiTempo2024, 0)
          incrementoMinimo == Max(1, CeilPercent(dipendenti2024))
          nuoveAssunzioni == OrElse(inp.nuoveAssunzioni2025, 0)
          condition4 == nuoveAssunzioni >= incrementoMinimo
          condition5 == ~inp.hasUsedCIG
      IN  [isApplicable |-> condition1 /\ condition2 /\ condition3
                             /\ condition4 /\ condition5,
           details |-> Some([condition1_utiliAccantonati |-> condition1,
                             condition2_investimenti |-> condition2,
                             condition3_livelloOccupazionale |-> condition3,
                             condition4_nuoveAssunzioni |-> condition4,
                             condition5_noCIG |-> condition5,
                             requiredInvestment |-> requiredInvestment,
                             actualInvestment |-> actualInvestment,
                             requiredReserve |-> requiredReserve,
                             incrementoMinimo |-> incrementoMinimo])]

\* Mutation of calculateROLAndInterests: the operands of the last
\* subtraction are exchanged.
calculateROLAndInterests_Swapped(inp) ==
    LET interessiAttivi == OrElse(inp.interessiAttivi, 0)
        interessiPassivi == OrElse(inp.interessiPassivi, 0)
        rolFiscale == OrElse(inp.rolFiscale, Mul(inp.revenue, 3, 20))
        coperti == Min(interessiPassivi, interessiAttivi)
        limitROL == Mul(rolFiscale, 3, 10)
        deducibili == coperti + Min(interessiPassivi - coperti, limitROL)
    IN  [rolFiscale |-> rolFiscale,
         interessiAttiviTotali |-> interessiAttivi,
         interessiPassiviDeducibili |-> deducibili,
         interessiPassiviIndeducibili |-> deducibili - interessiPassivi,
         limitROL |-> limitROL]

\* calculateROLAndInterests
calculateROLAndInterests(inp) ==
    LET interessiAttivi == OrElse(inp.interessiAttivi, 0)
        interessiPassivi == OrElse(inp.interessiPassivi, 0)
        rolFiscale == OrElse(inp.rolFiscale, Mul(inp.revenue, 3, 20))
        interessiAttiviTotali == interessiAttivi
        interessiPassiviCopertiDaAttivi == Min(interessiPassivi, interessiAttiviTotali)
        eccedenzaInteressiPassivi == interessiPassivi - interessiPassiviCopertiDaAttivi
        limitROL == Mul(rolFiscale, 3, 10)
        interessiPassiviCopertiDaROL == Min(eccedenzaInteressiPassivi, limitROL)
        interessiPassiviDeducibili ==
            interessiPassiviCopertiDaAttivi + interessiPassiviCopertiDaROL
        interessiPassiviIndeducibili == interessiPassivi - interessiPassiviDeducibili
    IN  [rolFiscale |-> rolFiscale,
         interessiAttiviTotali |-> interessiAttiviTotali,
         interessiPassiviDeducibili |-> interessiPassiviDeducibili,
         interessiPassiviIndeducibili |-> interessiPassiviIndeducibili,
         limitROL |-> limitROL]

\* Mutation of calculateLossesUsage: the 80% ceiling is taken on the whole
\* income instead of on the income left after the first-three-year losses.
calculateLossesUsage_CapOnIncome(reddito, inp) ==
    IF reddito <= 0
    THEN [lossesUsed |-> 0,
          remainingLosses |-> OrElse(inp.perditePregresseOrdinarie, 0)]
    ELSE
      LET perditeOrdinarie == OrElse(inp.perditePregresseOrdinarie, 0)
          perditePrimi3Used == Min(OrElse(inp.perditePrimi3Esercizi, 0), reddito)
          perditeOrdinarieUsed == Min(perditeOrdinarie, Mul(reddito, 4, 5))
      IN  [lossesUsed |-> perditePrimi3Used + perditeOrdinarieUsed,
           remainingLosses |-> perditeOrdinarie - perditeOrdinarieUsed]

\* calculateLossesUsage
calculateLossesUsage(reddito, inp) ==
    IF reddito <= 0
    THEN [lossesUsed |-> 0,
          remainingLosses |-> OrElse(inp.perditePregresseOrdinarie, 0)]
    ELSE
      LET perditeOrdinarie == OrElse(inp.perditePregresseOrdinarie, 0)
          perditePrimi3 == OrElse(inp.perditePrimi3Esercizi, 0)
          perditePrimi3Used == Min(perditePrimi3, reddito)
          redditoResiduoDopoPrimi3 == reddito - perditePrimi3Used
          limiteOrdinary == Mul(redditoResiduoDopoPrimi3, 4, 5)
          perditeOrdinarieUsed == Min(perditeOrdinarie, limiteOrdinary)
          totalLossesUsed == perditePrimi3Used + perditeOrdinarieUsed
          remainingLosses == perditeOrdinarie - perditeOrdinarieUsed
      IN  [lossesUsed |-> totalLossesUsed, remainingLosses |-> remainingLosses]

\* calculateSuperDeduction
calculateSuperDeduction(inp) ==
    LET costoNuove == OrElse(inp.costoNuoveAssunzioni, 0)
        incrementoCosto == OrElse(inp.incrementoCostoPersonale, 0)
        costoAgevolabile == Min(costoNuove, incrementoCosto)
    IN  IF costoNuove = 0 THEN 0 ELSE Mul(costoAgevolabile, 1, 5)

\* calculateIrapDeductions
calculateIrapDeductions(inp) ==
    LET contributiBased == Mul(inp.employeeCosts, 3, 10)
    IN  contributiBased + (IF inp.region = "FRIULI" THEN Euro(2000) ELSE 0)

\* getMonthName
getMonthName(month) ==
    LET months == <<"Gennaio", "Febbraio", "Marzo", "Aprile", "Maggio", "Giugno",
                    "Luglio", "Agosto", "Settembre", "Ottobre", "Novembre", "Dicembre">>
    IN  IF month + 1 \in DOMAIN months THEN months[month + 1] ELSE ""

\* calculateVATDeadlines, TRIMESTRALE branch: a type `IVA Q1 ${fiscalYear}` is
\* the pair <<"IVA Q1", fiscalYear>>.
QuarterlyDeadlines(totalVatAmount, fiscalYear) ==
    LET quarterlyAmount == Mul(totalVatAmount, 1, 4)
    IN  << [date |-> <<16, 4, fiscalYear>>, amount |-> quarterlyAmount,
            type |-> <<"IVA Q1", fiscalYear>>],
           [date |-> <<16, 7, fiscalYear>>, amount |-> quarterlyAmount,
            type |-> <<"IVA Q2", fiscalYear>>],
           [date |-> <<16, 10, fiscalYear>>, amount |-> quarterlyAmount,
            type |-> <<"IVA Q3", fiscalYear>>],
           [date |-> <<16, 1, fiscalYear + 1>>, amount |-> quarterlyAmount,
            type |-> <<"IVA Q4", fiscalYear>>] >>

\* calculateVATDeadlines, MENSILE branch.
MonthlyDeadlines(totalVatAmount, fiscalYear) ==
    LET monthlyAmount == Mul(totalVatAmount, 1, 12)
    IN  [month \in 1..12 |->
           LET paymentMonth == IF month = 12 THEN 1 ELSE month + 1
               paymentYear == IF month = 12 THEN fiscalYear + 1 ELSE fiscalYear
           IN  [date |-> <<16, paymentMonth, paymentYear>>,
                amount |-> monthlyAmount,
                type |-> <<"IVA " \o getMonthName(month - 1), fiscalYear>>]]

\* Mutation of calculateVATDeadlines: an unrecognised regime falls back to the
\* quarterly cadence, as the frequency lookup does.
calculateVATDeadlines_DefaultQuarterly(vatRegime, totalVatAmount, frequency, fiscalYear) ==
    IF vatRegime = "MENSILE" THEN MonthlyDeadlines(totalVatAmount, fiscalYear)
    ELSE QuarterlyDeadlines(totalVatAmount, fiscalYear)

\* calculateVATDeadlines
calculateVATDeadlines(vatRegime, totalVatAmount, frequency, fiscalYear) ==
    IF vatRegime = "TRIMESTRALE" THEN QuarterlyDeadlines(totalVatAmount, fiscalYear)
    ELSE IF vatRegime = "MENSILE" THEN MonthlyDeadlines(totalVatAmount, fiscalYear)
    ELSE << >>

(***************************************************************************)
(* Calendar and payment schedule                                           *)
(***************************************************************************)
\* Array.prototype.sort with the comparator dateA.getTime() - dateB.getTime():
\* a stable sort by date.  InsertByDate puts e behind every entry that is
\* not later than e.
InsertByDate(sorted, e) ==
    LET k == Cardinality({i \in 1..Len(sorted) : DateTime(sorted[i].date) <= DateTime(e.date)})
    IN  SubSeq(sorted, 1, k) \o <<e>> \o SubSeq(sorted, k + 1, Len(sorted))

\* Mutation of SortByDate: the sort is left out.
SortByDate_Unsorted(seq) == seq

RECURSIVE SortByDate(_)
SortByDate(seq) ==
    IF seq = << >> THEN << >>
    ELSE InsertByDate(SortByDate(SubSeq(seq, 1, Len(seq) - 1)), seq[Len(seq)])

\* createFiscalCalendar2025
createFiscalCalendar2025(iresFirstAcconto, iresSecondAcconto, irapFirstAcconto, irapSecondAcconto, vatDeadlines, inpsTotalAmount, fiscalYear, isNewBusiness2025) ==
    LET vat == [i \in 1..Len(vatDeadlines) |->
                  [date |-> vatDeadlines[i].date, amount |-> vatDeadlines[i].amount,
                   type |-> vatDeadlines[i].type, category |-> "IVA",
                   description |-> vatDeadlines[i].type]]
        ires1 == IF ~isNewBusiness2025 /\ iresFirstAcconto > 0
                 THEN << [date |-> <<30, 6, 2025>>, amount |-> iresFirstAcconto,
                          type |-> <<"IRES I Acconto 2025">>, category |-> "IRES",
                          description |-> <<"Primo acconto IRES 2025 (40% imposta 2024)">>] >>
                 ELSE << >>
        irap1 == IF ~isNewBusiness2025 /\ irapFirstAcconto > 0
                 THEN << [date |-> <<30, 6, 2025>>, amount |-> irapFirstAcconto,
                          type |-> <<"IRAP I Acconto 2025">>, category |-> "IRAP",
                          description |-> <<"Primo acconto IRAP 2025 (40% imposta 2024)">>] >>
                 ELSE << >>
        ires2 == IF ~isNewBusiness2025 /\ iresSecondAcconto > 0
                 THEN << [date |-> <<30, 11, 2025>>, amount |-> iresSecondAcconto,
                          type |-> <<"IRES II Acconto 2025">>, category |-> "IRES",
                          description |-> <<"Secondo acconto IRES 2025 (60% imposta 2024)">>] >>
                 ELSE << >>
        irap2 == IF ~isNewBusiness2025 /\ irapSecondAcconto > 0
                 THEN << [date |-> <<30, 11, 2025>>, amount |-> irapSecondAcconto,
                          type |-> <<"IRAP II Acconto 2025">>, category |-> "IRAP",
                          description |-> <<"Secondo acconto IRAP 2025 (60% imposta 2024)">>] >>
                 ELSE << >>
        inpsQuarterly == Mul(inpsTotalAmount, 1, 4)
        inps == IF inpsQuarterly > 0
                THEN << [date |-> <<16, 5, fiscalYear>>, amount |-> inpsQuarterly,
                         type |-> <<"INPS I Trim", fiscalYear>>, category |-> "INPS",
                         description |-> <<"Contributi INPS - I trimestre", fiscalYear>>],
                        [date |-> <<20, 8, fiscalYear>>, amount |-> inpsQuarterly,
                         type |-> <<"INPS II Trim", fiscalYear>>, category |-> "INPS",
                         description |-> <<"Contributi INPS - II trimestre", fiscalYear>>],
                        [date |-> <<16, 11, fiscalYear>>, amount |-> inpsQuarterly,
                         type |-> <<"INPS III Trim", fiscalYear>>, category |-> "INPS",
                         description |-> <<"Contributi INPS - III trimestre", fiscalYear>>],
                        [date |-> <<16, 2, fiscalYear + 1>>, amount |-> inpsQuarterly,
                         type |-> <<"INPS IV Trim", fiscalYear>>, category |-> "INPS",
                         description |-> <<"Contributi INPS - IV trimestre", fiscalYear>>] >>
                ELSE << >>
    IN  SortByDate(vat \o ires1 \o irap1 \o ires2 \o irap2 \o inps)

\* Mutation of ReplayEvent: a shortfall is carried on as a negative balance.
ReplayEvent_NoClamp(event, runningBalance) ==
    LET balanceAfterPayment == runningBalance - event.amount
        newRunning == IF event.isIncome THEN runningBalance + event.amount
                      ELSE balanceAfterPayment
        requiredPayment == IF event.isIncome THEN event.amount
                           ELSE IF balanceAfterPayment < 0 THEN Abs(balanceAfterPayment)
                           ELSE 0
        deficit == IF newRunning < 0 THEN Abs(newRunning) ELSE 0
    IN  [runningBalance |-> newRunning,
         row |-> [date |-> event.date, amount |-> event.amount, type |-> event.type,
                  category |-> event.category, description |-> event.description,
                  previousBalance |-> Round2(runningBalance),
                  newBalance |-> Round2(newRunning),
                  deficit |-> Round2(deficit),
                  isIncome |-> event.isIncome,
                  requiredPayment |-> Round2(requiredPayment)]]

\* Mutation of ReplayEvent: the deficit is taken from the balance before it
\* is clamped to zero.
ReplayEvent_DeficitBeforeClamp(event, runningBalance) ==
    LET balanceAfterPayment == runningBalance - event.amount
        newRunning == IF event.isIncome THEN runningBalance + event.amount
                      ELSE IF balanceAfterPayment < 0 THEN 0
                      ELSE balanceAfterPayment
        requiredPayment == IF event.isIncome THEN event.amount
                           ELSE IF balanceAfterPayment < 0 THEN Abs(balanceAfterPayment)
                           ELSE 0
        unclamped == IF event.isIncome THEN newRunning ELSE balanceAfterPayment
        deficit == IF unclamped < 0 THEN Abs(unclamped) ELSE 0
    IN  [runningBalance |-> newRunning,
         row |-> [date |-> event.date, amount |-> event.amount, type |-> event.type,
                  category |-> event.category, description |-> event.description,
                  previousBalance |-> Round2(runningBalance),
                  newBalance |-> Round2(newRunning),
                  deficit |-> Round2(deficit),
                  isIncome |-> event.isIncome,
                  requiredPayment |-> Round2(requiredPayment)]]

\* Mutation of ReplayEvent: previousBalance is read after the running
\* balance has been updated.
ReplayEvent_PreviousAfterUpdate(event, runningBalance) ==
    LET balanceAfterPayment == runningBalance - event.amount
        newRunning == IF event.isIncome THEN runningBalance + event.amount
                      ELSE IF balanceAfterPayment < 0 THEN 0
                      ELSE balanceAfterPayment
        requiredPayment == IF event.isIncome THEN event.amount
                           ELSE IF balanceAfterPayment < 0 THEN Abs(balanceAfterPayment)
                           ELSE 0
        deficit == IF newRunning < 0 THEN Abs(newRunning) ELSE 0
    IN  [runningBalance |-> newRunning,
         row |-> [date |-> event.date, amount |-> event.amount, type |-> event.type,
                  category |-> event.category, description |-> event.description,
                  previousBalance |-> Round2(newRunning),
                  newBalance |-> Round2(newRunning),
                  deficit |-> Round2(deficit),
                  isIncome |-> event.isIncome,
                  requiredPayment |-> Round2(requiredPayment)]]

\* The forEach body of createPaymentSchedule: one event replayed on the
\* running balance, giving the new running balance and the row pushed.
ReplayEvent(event, runningBalance) ==
    LET previousBalance == runningBalance
        balanceAfterPayment == runningBalance - event.amount
        newRunning == IF event.isIncome THEN runningBalance + event.amount
                      ELSE IF balanceAfterPayment < 0 THEN 0
                      ELSE balanceAfterPayment
        requiredPayment == IF event.isIncome THEN event.amount
                           ELSE IF balanceAfterPayment < 0 THEN Abs(balanceAfterPayment)
                           ELSE 0
        deficit == IF newRunning < 0 THEN Abs(newRunning) ELSE 0
    IN  [runningBalance |-> newRunning,
         row |-> [date |-> event.date, amount |-> event.amount, type |-> event.type,
                  category |-> event.category, description |-> event.description,
                  previousBalance |-> Round2(previousBalance),
                  newBalance |-> Round2(newRunning),
                  deficit |-> Round2(deficit),
                  isIncome |-> event.isIncome,
                  requiredPayment |-> Round2(requiredPayment)]]

RECURSIVE Replay(_, _, _)
Replay(events, runningBalance, schedule) ==
    IF events = << >> THEN schedule
    ELSE LET step == ReplayEvent(Head(events), runningBalance)
         IN  Replay(Tail(events), step.runningBalance, Append(schedule, step.row))

\* createPaymentSchedule; now is the value of new Date().
createPaymentSchedule(calendar, currentBalance, monthlyAccrual, fiscalYear, now) ==
    LET deposit(month) ==
            [date |-> <<1, month, fiscalYear>>, amount |-> monthlyAccrual,
             type |-> <<"Versamento Mensile", month>>, category |-> "ACCUMULO",
             description |-> <<"Accantonamento mensile consigliato">>,
             isIncome |-> TRUE]
        payment(p) ==
            [date |-> p.date, amount |-> p.amount, type |-> p.type,
             category |-> p.category, description |-> p.description,
             isIncome |-> FALSE]
        future(e) == DateTime(e.date) >= now
        deposits == SelectSeq([month \in 1..12 |-> deposit(month)], future)
        payments == SelectSeq([i \in 1..Len(calendar) |-> payment(calendar[i])], future)
        allEvents == SortByDate(deposits \o payments)
    IN  Replay(allEvents, currentBalance, << >>)

(***************************************************************************)
(* calculateSRLTaxes, in the order of its numbered sections                *)
(***************************************************************************)
\* A comparison with NaN is false.
NumLeq(a, n) == a # NaN /\ a[1] <= n

NumGeq(a, n) == a # NaN /\ a[1] >= n

\* input.startYear || (input.startDate ? new Date(input.startDate).getFullYear() : 2025)
ResolveStartYear(inp) ==
    IF Truthy(inp.startYear) THEN Num(inp.startYear[1])
    ELSE IF inp.startDate # Absent /\ inp.startDate[1] # ""
         THEN ParsedYear(inp.startDate[1])
         ELSE Num(2025)

\* Mutation of IsNewBusiness2025: a strict comparison.
IsNewBusiness2025_Strict(startYear) == startYear # NaN /\ startYear[1] > 2025

\* const isNewBusiness2025 = startYear >= 2025
IsNewBusiness2025(startYear) == NumGeq(startYear, 2025)

\* Sections 1-4: years, taxable base, interest, super deduction, losses.
ComputeIncome(inp) ==
    LET fiscalYear == OrElse(inp.fiscalYear, 2025)
        startYear == ResolveStartYear(inp)
        usePreviousYearData == NumLeq(startYear, 2024)
        grossProfit == inp.revenue - inp.costs - inp.employeeCosts
        taxableIncome1 == Max(0, grossProfit - inp.adminSalary)
        rolDetails == calculateROLAndInterests(inp)
        taxableIncome2 == taxableIncome1 - rolDetails.interessiPassiviIndeducibili
        superDeductionAmount == calculateSuperDeduction(inp)
        taxableIncome == Max(0, taxableIncome2 - superDeductionAmount)
        lossesUsage == calculateLossesUsage(taxableIncome, inp)
        taxableIncomeAfterLosses == Max(0, taxableIncome - lossesUsage.lossesUsed)
    IN  [fiscalYear |-> fiscalYear, startYear |-> startYear,
         usePreviousYearData |-> usePreviousYearData,
         grossProfit |-> grossProfit, taxableIncome |-> taxableIncome,
         rolDetails |-> rolDetails, superDeductionAmount |-> superDeductionAmount,
         lossesUsage |-> lossesUsage,
         taxableIncomeAfterLosses |-> taxableIncomeAfterLosses]

\* Sections 5-9: IRES, IRAP, VAT, INPS, totals.
ComputeTaxes(inp, inc) ==
    LET iresPremialeCheck == checkIresPremialeConditions(inp)
        iresRate == IF iresPremialeCheck.isApplicable /\ inc.fiscalYear = 2025
                    THEN 20 ELSE 24
        iresAmount == Mul(inc.taxableIncomeAfterLosses, iresRate, 100)
        irapBase == inp.revenue - (inp.costs - inp.employeeCosts)
        irapDeductions == calculateIrapDeductions(inp)
        irapTaxableIncome == Max(0, irapBase - irapDeductions)
        irapRate == IF inp.region \in DOMAIN IRAP_RATES THEN IRAP_RATES[inp.region] ELSE 390
        irapAmount == Mul(irapTaxableIncome, irapRate, 10000)
        vatOnSales == OrElse(inp.vatOnSales, Mul(inp.revenue, 11, 50))
        vatOnPurchases == OrElse(inp.vatOnPurchases, Mul(inp.costs, 11, 50))
        vatNet == Max(0, vatOnSales - vatOnPurchases)
        vatAmount == IF inp.hasVatDebt /\ inp.vatDebt > 0 THEN vatNet + inp.vatDebt ELSE vatNet
        vatFrequency == IF inp.vatRegime \in DOMAIN VAT_REGIMES
                        THEN VAT_REGIMES[inp.vatRegime] ELSE 4
        vatQuarterly == Mul(vatAmount, 4, vatFrequency)
        vatDeadlines == calculateVATDeadlines(inp.vatRegime, vatAmount, vatFrequency,
                                              inc.fiscalYear)
        adminMinimum == Euro(18324)
        adminMaximum == Euro(105014)
        adminContributionBase == Max(adminMinimum, Min(inp.adminSalary, adminMaximum))
        inpsAdmin == IF inp.adminSalary > 0 THEN Mul(adminContributionBase, 6, 25) ELSE 0
        inpsEmployees == IF inp.employees > 0 /\ inp.employeeCosts > 0
                         THEN Mul(inp.employeeCosts, 3, 10) ELSE 0
        inpsTotalAmount == inpsAdmin + inpsEmployees
        totalTaxes == iresAmount + irapAmount
        totalDue == totalTaxes + inpsTotalAmount + vatAmount
    IN  [iresPremialeCheck |-> iresPremialeCheck, iresRate |-> iresRate,
         iresAmount |-> iresAmount, irapBase |-> irapBase,
         irapDeductions |-> irapDeductions, irapTaxableIncome |-> irapTaxableIncome,
         irapRate |-> irapRate, irapAmount |-> irapAmount,
         vatOnSales |-> vatOnSales, vatOnPurchases |-> vatOnPurchases,
         vatAmount |-> vatAmount, vatQuarterly |-> vatQuarterly,
         vatDeadlines |-> vatDeadlines, inpsAdmin |-> inpsAdmin,
         inpsEmployees |-> inpsEmployees, inpsTotalAmount |-> inpsTotalAmount,
         totalTaxes |-> totalTaxes, totalDue |-> totalDue]

\* Sections 10-11: installments and monthly accrual.
ComputeAcconti(inp, inc, tx) ==
    LET isNewBusiness2025 == IsNewBusiness2025(inc.startYear)
        compute == ~isNewBusiness2025 /\ inc.usePreviousYearData
        baseIres == IF Truthy(inp.utile2024) THEN Mul(inp.utile2024[1], 6, 25)
                    ELSE Mul(tx.iresAmount, 4, 5)
        baseIrap == IF Truthy(inp.revenue2024)
                    THEN Mul(inp.revenue2024[1] - OrElse(inp.costs2024, 0), tx.irapRate, 10000)
                    ELSE Mul(tx.irapAmount, 4, 5)
    IN  [isNewBusiness2025 |-> isNewBusiness2025,
         accontiDetails |-> [isNewBusiness |-> isNewBusiness2025,
                             accontiBasedOn2024 |-> inc.usePreviousYearData /\ ~isNewBusiness2025,
                             accontiRate |-> 40],
         iresFirstAcconto |-> IF compute THEN Mul(baseIres, 2, 5) ELSE 0,
         iresSecondAcconto |-> IF compute THEN Mul(baseIres, 3, 5) ELSE 0,
         irapFirstAcconto |-> IF compute THEN Mul(baseIrap, 2, 5) ELSE 0,
         irapSecondAcconto |-> IF compute THEN Mul(baseIrap, 3, 5) ELSE 0,
         monthlyAccrual |-> Mul(tx.totalDue, 1, 12),
         quarterlyPayments |-> tx.vatQuarterly + Mul(tx.inpsTotalAmount, 1, 4)]

\* The returned record: the amounts rounded to two decimals.
AssembleResult(inc, tx, acc, cal, sched) ==
    [fiscalYear |-> inc.fiscalYear,
     grossProfit |-> Round2(inc.grossProfit),
     taxableIncome |-> Round2(inc.taxableIncome),
     taxableIncomeAfterLosses |-> Round2(inc.taxableIncomeAfterLosses),
     iresAmount |-> Round2(tx.iresAmount),
     iresRate |-> tx.iresRate,
     isIresPremialeApplicable |-> tx.iresPremialeCheck.isApplicable,
     iresPremialeDetails |-> IF tx.iresPremialeCheck.isApplicable
                             THEN tx.iresPremialeCheck.details ELSE Absent,
     irapBase |-> Round2(tx.irapBase),
     irapDeductions |-> Round2(tx.irapDeductions),
     irapTaxableIncome |-> Round2(tx.irapTaxableIncome),
     irapAmount |-> Round2(tx.irapAmount),
     irapRate |-> tx.irapRate,
     lossesUsed |-> Round2(inc.lossesUsage.lossesUsed),
     remainingLosses |-> Round2(inc.lossesUsage.remainingLosses),
     superDeductionAmount |-> Round2(inc.superDeductionAmount),
     rolDetails |-> [rolFiscale |-> Round2(inc.rolDetails.rolFiscale),
                     interessiAttiviTotali |-> Round2(inc.rolDetails.interessiAttiviTotali),
                     interessiPassiviDeducibili |->
                         Round2(inc.rolDetails.interessiPassiviDeducibili),
                     interessiPassiviIndeducibili |->
                         Round2(inc.rolDetails.interessiPassiviIndeducibili),
                     limitROL |-> Round2(inc.rolDetails.limitROL)],
     vatOnSales |-> Round2(tx.vatOnSales),
     vatOnPurchases |-> Round2(tx.vatOnPurchases),
     vatAmount |-> Round2(tx.vatAmount),
     vatQuarterly |-> Round2(tx.vatQuarterly),
     vatDeadlines |-> [i \in 1..Len(tx.vatDeadlines) |->
                          [tx.vatDeadlines[i] EXCEPT !.amount = Round2(@)]],
     inpsAdmin |-> Round2(tx.inpsAdmin),
     inpsEmployees |-> Round2(tx.inpsEmployees),
     inpsTotalAmount |-> Round2(tx.inpsTotalAmount),
     totalTaxes |-> Round2(tx.totalTaxes),
     totalDue |-> Round2(tx.totalDue),
     iresFirstAcconto |-> Round2(acc.iresFirstAcconto),
     iresSecondAcconto |-> Round2(acc.iresSecondAcconto),
     irapFirstAcconto |-> Round2(acc.irapFirstAcconto),
     irapSecondAcconto |-> Round2(acc.irapSecondAcconto),
     accontiDetails |-> acc.accontiDetails,
     monthlyAccrual |-> Round2(acc.monthlyAccrual),
     quarterlyPayments |-> Round2(acc.quarterlyPayments),
     calendar2025 |-> cal,
     paymentSchedule |-> sched]

\* calculateSRLTaxes as a whole; now is the value new Date() has in
\* createPaymentSchedule.
calculateSRLTaxes(inp, now) ==
    LET inc == ComputeIncome(inp)
        tx == ComputeTaxes(inp, inc)
        acc == ComputeAcconti(inp, inc, tx)
        cal == createFiscalCalendar2025(acc.iresFirstAcconto, acc.iresSecondAcconto,
                                        acc.irapFirstAcconto, acc.irapSecondAcconto,
                                        tx.vatDeadlines, tx.inpsTotalAmount,
                                        inc.fiscalYear, acc.isNewBusiness2025)
        sched == createPaymentSchedule(cal, inp.currentBalance, acc.monthlyAccrual,
                                       inc.fiscalYear, now)
    IN  AssembleResult(inc, tx, acc, cal, sched)

(***************************************************************************)
(* Actions: calculateSRLTaxes runs its sections in order.                  *)
(***************************************************************************)
Nothing == << >>

Income ==
    /\ pc = "start"
    /\ income' = ComputeIncome(input)
    /\ pc' = "income"
    /\ UNCHANGED <<input, today, taxes, acconti, calendar2025, paymentSchedule, result>>

Taxes ==
    /\ pc = "income"
    /\ taxes' = ComputeTaxes(input, income)
    /\ pc' = "taxes"
    /\ UNCHANGED <<input, today, income, acconti, calendar2025, paymentSchedule, result>>

Acconti ==
    /\ pc = "taxes"
    /\ acconti' = ComputeAcconti(input, income, taxes)
    /\ pc' = "acconti"
    /\ UNCHANGED <<input, today, income, taxes, calendar2025, paymentSchedule, result>>

Calendar ==
    /\ pc = "acconti"
    /\ calendar2025' = createFiscalCalendar2025(
                           acconti.iresFirstAcconto, acconti.iresSecondAcconto,
                           acconti.irapFirstAcconto, acconti.irapSecondAcconto,
                           taxes.vatDeadlines, taxes.inpsTotalAmount,
                           income.fiscalYear, acconti.isNewBusiness2025)
    /\ pc' = "calendar"
    /\ UNCHANGED <<input, today, income, taxes, acconti, paymentSchedule, result>>

Schedule ==
    /\ pc = "calendar"
    /\ paymentSchedule' = createPaymentSchedule(calendar2025, input.currentBalance,
                                                acconti.monthlyAccrual,
                                                income.fiscalYear, today)
    /\ pc' = "schedule"
    /\ UNCHANGED <<input, today, income, taxes, acconti, calendar2025, result>>

Return ==
    /\ pc = "schedule"
    /\ result' = AssembleResult(income, taxes, acconti, calendar2025, paymentSchedule)
    /\ pc' = "done"
    /\ UNCHANGED <<input, today, income, taxes, acconti, calendar2025, paymentSchedule>>

Next == Income \/ Taxes \/ Acconti \/ Calendar \/ Schedule \/ Return

(***************************************************************************)
(* Inputs.  Each specification draws the input record from a family that   *)
(* varies one group of fields around the reference record of the           *)
(* documentation (revenue 500000, costs 300000, two employees costing      *)
(* 80000, administrator salary 40000, LAZIO, TRIMESTRALE, fiscal year      *)
(* 2025, started 2023).                                                    *)
(***************************************************************************)
MaxBalanceSteps == 2

MaxLossSteps == 2

MaxHeadcount == 6

Reference ==
    [revenue |-> Euro(500000), costs |-> Euro(300000), employees |-> 2,
     employeeCosts |-> Euro(80000), adminSalary |-> Euro(40000),
     region |-> "LAZIO", businessSector |-> "SERVIZI", vatRegime |-> "TRIMESTRALE",
     hasVatDebt |-> FALSE, vatDebt |-> 0, currentBalance |-> 0,
     startDate |-> Absent, startYear |-> Some(2023),
     vatOnSales |-> Absent, vatOnPurchases |-> Absent,
     fiscalYear |-> Some(2025),
     revenue2024 |-> Absent, costs2024 |-> Absent,
     utile2024 |-> Absent, utile2023 |-> Absent, investimentiPrevisti |-> Absent,
     mediaULA2022_2024 |-> Absent, dipendentiTempo2024 |-> Absent,
     nuoveAssunzioni2025 |-> Absent, hasUsedCIG |-> FALSE,
     interessiAttivi |-> Absent, interessiPassivi |-> Absent, rolFiscale |-> Absent,
     perditePregresseOrdinarie |-> Absent, perditePrimi3Esercizi |-> Absent,
     costoNuoveAssunzioni |-> Absent, incrementoCostoPersonale |-> Absent]

\* Processing dates: before every event, the midnight of a deposit date,
\* the noon of the first installment date, late in the year, after all.
TodaySet ==
    {DateUTC(2024, 1, 1), DateUTC(2025, 3, 1), DateUTC(2025, 6, 30) + 1,
     DateUTC(2025, 11, 16), DateUTC(2027, 3, 1)}

\* Starting balances: multiples of 10000.005, from one negative step.
BalanceSet == {k * 10000005 : k \in -1..MaxBalanceSteps}

\* (startYear, startDate) pairs; the start date is read only without a start year.
StartSet ==
    {<<Some(y), Absent>> : y \in {2024, 2025}}
      \cup {<<Absent, d>> : d \in {Absent, Some(""), Some("2023-06-01"),
                                   Some("2025-03-15"), Some("da definire")}}

ScheduleInputs ==
    {[Reference EXCEPT !.currentBalance = b, !.vatRegime = r, !.fiscalYear = f,
                       !.startYear = st[1], !.startDate = st[2],
                       !.hasVatDebt = v[1], !.vatDebt = v[2],
                       !.revenue = rev] :
        b \in BalanceSet,
        r \in {"TRIMESTRALE", "MENSILE", "ANNUALE"},
        f \in {Absent, Some(2024), Some(2025), Some(2026)},
        st \in StartSet,
        v \in {<<FALSE, 0>>, <<TRUE, 100010>>},
        rev \in {0, Euro(500000)}}

Init ==
    /\ input \in ScheduleInputs
    /\ today \in TodaySet
    /\ pc = "start"
    /\ income = Nothing /\ taxes = Nothing /\ acconti = Nothing
    /\ calendar2025 = Nothing /\ paymentSchedule = Nothing /\ result = Nothing

Spec == Init /\ [][Next]_vars

\* Loss amounts: absent, or a non-zero multiple of 30000 from one negative step.
LossSet == {Absent} \cup {Some(Euro(30000) * k) : k \in (-1..MaxLossSteps) \ {0}}

IncomeInputs ==
    {[Reference EXCEPT !.revenue = rev, !.adminSalary = adm,
                       !.interessiAttivi = ia, !.interessiPassivi = ip,
                       !.rolFiscale = rol,
                       !.perditePregresseOrdinarie = po, !.perditePrimi3Esercizi = p3,
                       !.costoNuoveAssunzioni = sd[1],
                       !.incrementoCostoPersonale = sd[2]] :
        rev \in {0 - Euro(1000), 380000100, Euro(500000)},
        adm \in {0 - Euro(5000), 0, Euro(40000)},
        ia \in {Absent, Some(Euro(300))},
        ip \in {Absent, Some(0 - Euro(200)), Some(Euro(1000))},
        rol \in {Absent, Some(150350), Some(0 - Euro(1000))},
        po \in LossSet, p3 \in LossSet,
        sd \in {<<Absent, Absent>>, <<Some(Euro(10000)), Some(Euro(8000))>>,
                <<Some(Euro(10000)), Some(0 - Euro(5000))>>}}

InitIncome ==
    /\ input \in IncomeInputs
    /\ today = DateUTC(2025, 1, 1) + 1
    /\ pc = "start"
    /\ income = Nothing /\ taxes = Nothing /\ acconti = Nothing
    /\ calendar2025 = Nothing /\ paymentSchedule = Nothing /\ result = Nothing

SpecIncome == InitIncome /\ [][Next]_vars

\* Head counts: absent, around MaxHeadcount, and one large staff.
HeadcountSet == {Absent} \cup {Some(n) : n \in {MaxHeadcount - 1, MaxHeadcount, 150}}

PremialeInputs ==
    {[Reference EXCEPT !.fiscalYear = f, !.utile2024 = u24, !.utile2023 = u23,
                       !.investimentiPrevisti = inv, !.mediaULA2022_2024 = ula,
                       !.dipendentiTempo2024 = dip, !.nuoveAssunzioni2025 = na,
                       !.hasUsedCIG = cig] :
        f \in {Absent, Some(0), Some(2024), Some(2025)},
        u24 \in {Absent, Some(0 - Euro(10000)), Some(Euro(100000))},
        u23 \in {Absent, Some(Euro(200000))},
        inv \in {Absent, Some(19999990), Some(Euro(25000)), Some(Euro(50000))},
        ula \in HeadcountSet,
        dip \in HeadcountSet,
        na \in {Absent, Some(1), Some(2)},
        cig \in BOOLEAN}

InitPremiale ==
    /\ input \in PremialeInputs
    /\ today = DateUTC(2025, 1, 1) + 1
    /\ pc = "start"
    /\ income = Nothing /\ taxes = Nothing /\ acconti = Nothing
    /\ calendar2025 = Nothing /\ paymentSchedule = Nothing /\ result = Nothing

SpecPremiale == InitPremiale /\ [][Next]_vars

\* VAT fields: absent, an explicit zero, explicit amounts.
VatFieldSet == {Absent, Some(0), Some(Euro(50000)), Some(70000125)}

VatInputs ==
    {[Reference EXCEPT !.vatOnSales = vs, !.vatOnPurchases = vp,
                       !.revenue = rev, !.costs = co, !.vatRegime = r,
                       !.hasVatDebt = v[1], !.vatDebt = v[2]] :
        vs \in VatFieldSet, vp \in VatFieldSet,
        rev \in {0, Euro(500000)}, co \in {0, Euro(300000)},
        r \in {"TRIMESTRALE", "MENSILE"},
        v \in {<<FALSE, 0>>, <<TRUE, 100010>>}}

InitVat ==
    /\ input \in VatInputs
    /\ today = DateUTC(2025, 1, 1) + 1
    /\ pc = "start"
    /\ income = Nothing /\ taxes = Nothing /\ acconti = Nothing
    /\ calendar2025 = Nothing /\ paymentSchedule = Nothing /\ result = Nothing

SpecVat == InitVat /\ [][Next]_vars

TypeOK == pc \in {"start", "income", "taxes", "acconti", "calendar", "schedule", "done"}

(***************************************************************************)
(* Properties                                                              *)
(***************************************************************************)
Cent(n) == n * 10

Done == pc = "done"

\* The amounts that only ever reduce the taxable base when they are not negative.
NonNegativeDeductions(inp) ==
    /\ inp.adminSalary >= 0
    /\ OrElse(inp.costoNuoveAssunzioni, 0) >= 0
    /\ OrElse(inp.incrementoCostoPersonale, 0) >= 0
    /\ OrElse(inp.perditePregresseOrdinarie, 0) >= 0
    /\ OrElse(inp.perditePrimi3Esercizi, 0) >= 0

\* C1, as stated: for every input record the result satisfies
\* taxableIncomeAfterLosses <= taxableIncome <= grossProfit.
C1_Original ==
    Done => /\ result.taxableIncomeAfterLosses <= result.taxableIncome
            /\ result.taxableIncome <= result.grossProfit

\* C1, amended: when the administrator salary, the super-deduction fields and
\* the loss fields are not negative, taxableIncomeAfterLosses <= taxableIncome
\* and taxableIncome <= the larger of 0 and grossProfit (so taxableIncome <=
\* grossProfit whenever grossProfit >= 0).
C1_BaseOnlyShrinks ==
    (Done /\ NonNegativeDeductions(input)) =>
        /\ result.taxableIncomeAfterLosses <= result.taxableIncome
        /\ result.taxableIncome <= (IF result.grossProfit > 0 THEN result.grossProfit ELSE 0)
        /\ result.taxableIncomeAfterLosses >= 0

\* A run with positive profit where interest, super deduction and losses
\* each take something off the base.
C1_Witness ==
    /\ Done /\ NonNegativeDeductions(input)
    /\ result.rolDetails.interessiPassiviIndeducibili > 0
    /\ result.superDeductionAmount > 0
    /\ result.lossesUsed > 0
    /\ 0 < result.taxableIncomeAfterLosses
    /\ result.taxableIncomeAfterLosses < result.taxableIncome
    /\ result.taxableIncome < result.grossProfit

\* C9, as stated: in the result, rolDetails.interessiPassiviDeducibili +
\* rolDetails.interessiPassiviIndeducibili equals the passive interest
\* supplied (0 when absent), to the cent.
C9_SplitSumsToTotal ==
    Done => result.rolDetails.interessiPassiviDeducibili
              + result.rolDetails.interessiPassiviIndeducibili
            = Round2(OrElse(input.interessiPassivi, 0))

\* The loss usage read back from what calculateLossesUsage returns.
OrdinaryAvailable == OrElse(input.perditePregresseOrdinarie, 0)

First3Available == OrElse(input.perditePrimi3Esercizi, 0)

OrdinaryUsed == OrdinaryAvailable - income.lossesUsage.remainingLosses

First3Used == income.lossesUsage.lossesUsed - OrdinaryUsed

\* C10: with positive income the first-three-year losses used do not exceed
\* perditePrimi3Esercizi, the ordinary losses used exceed neither
\* perditePregresseOrdinarie nor 80% of the income left after the
\* first-three-year losses, and ordinary losses are used only once the
\* first-three-year losses are used in full; with income <= 0 nothing is used
\* and remainingLosses is the ordinary-loss input.
C10_LossUsageBounded ==
    pc # "start" =>
        IF income.taxableIncome > 0
        THEN /\ First3Used <= First3Available
             /\ First3Used <= income.taxableIncome
             /\ OrdinaryUsed <= OrdinaryAvailable
             /\ 5 * OrdinaryUsed <= 4 * (income.taxableIncome - First3Used) + 2
             /\ (OrdinaryUsed > 0 => First3Used = First3Available)
        ELSE /\ income.lossesUsage.lossesUsed = 0
             /\ income.lossesUsage.remainingLosses = OrdinaryAvailable

\* Positive income, both kinds of loss used, the 80% ceiling binding.
C10_Witness ==
    /\ pc = "income" /\ income.taxableIncome > 0
    /\ First3Used > 0 /\ First3Used = First3Available
    /\ OrdinaryUsed > 0 /\ OrdinaryUsed < OrdinaryAvailable

\* Income of zero with ordinary losses available: nothing is used.
C10_WitnessNoIncome ==
    /\ pc = "income" /\ income.taxableIncome = 0
    /\ OrdinaryAvailable > 0 /\ income.lossesUsage.remainingLosses = OrdinaryAvailable

\* The five eligibility conditions, as the code evaluates them for a 2025 record.
FiveConditions(inp) == checkIresPremialeConditions([inp EXCEPT !.fiscalYear = Some(2025)])

\* C2, as stated: iresRate is 0.20 if and only if the fiscal year of the
\* calculation (given, or 2025 by default when absent) is 2025 and all five
\* eligibility conditions hold; otherwise it is 0.24.
C2_PreferentialRateIff ==
    Done => /\ result.iresRate \in {20, 24}
            /\ (result.iresRate = 20) <=>
                   (result.fiscalYear = 2025 /\ FiveConditions(input).isApplicable)

\* Rows of the schedule and entries of the calendar.
Rows == result.paymentSchedule

Shortfall(row) ==
    IF row.previousBalance - row.amount < 0 THEN row.amount - row.previousBalance ELSE 0

Clamped(row) ==
    IF row.previousBalance - row.amount < 0 THEN 0 ELSE row.previousBalance - row.amount

\* C3: on every row, newBalance = previousBalance + amount for a deposit and
\* max(0, previousBalance - amount) for an obligation, and on an obligation
\* row requiredPayment is the shortfall when previousBalance - amount < 0 and
\* 0 otherwise; each within one cent, the rows being rounded one by one.
C3_RowArithmetic ==
    Done => \A i \in 1..Len(Rows) :
        LET row == Rows[i]
        IN  IF row.isIncome
            THEN Abs(row.newBalance - (row.previousBalance + row.amount)) <= Cent(1)
            ELSE /\ Abs(row.newBalance - Clamped(row)) <= Cent(1)
                 /\ Abs(row.requiredPayment - Shortfall(row)) <= Cent(1)
                 /\ row.newBalance >= 0

\* A schedule that starts below zero and has a deposit, an obligation that is
\* covered and an obligation that is not.
C3_Witness ==
    /\ Done /\ input.currentBalance < 0
    /\ \E i \in 1..Len(Rows) : Rows[i].isIncome /\ Rows[i].amount > 0
    /\ \E i \in 1..Len(Rows) : ~Rows[i].isIncome /\ Rows[i].requiredPayment > 0
    /\ \E i \in 1..Len(Rows) :
          ~Rows[i].isIncome /\ Rows[i].amount > 0 /\ Rows[i].requiredPayment = 0

NonDecreasing(seq) ==
    \A i \in 1..(Len(seq) - 1) : DateTime(seq[i].date) <= DateTime(seq[i + 1].date)

\* C4: the dates of calendar2025 and the dates of paymentSchedule never
\* decrease from one entry to the next.
C4_DatesNonDecreasing ==
    /\ pc \in {"calendar", "schedule"} => NonDecreasing(calendar2025)
    /\ pc = "schedule" => NonDecreasing(paymentSchedule)
    /\ Done => NonDecreasing(result.calendar2025) /\ NonDecreasing(result.paymentSchedule)

\* A fiscal year other than 2025 with installments (dated 2025) among VAT and
\* contribution entries of the fiscal year, and a schedule of several rows.
C4_Witness ==
    /\ Done /\ result.fiscalYear # 2025
    /\ \E i \in 1..Len(result.calendar2025) : result.calendar2025[i].category = "IRES"
    /\ \E i \in 1..Len(result.calendar2025) : result.calendar2025[i].category = "IVA"
    /\ \E i \in 1..Len(result.calendar2025) : result.calendar2025[i].category = "INPS"
    /\ Len(Rows) > 12

\* C5, as stated: the deficit of every row is 0, for every starting balance.
C5_Original == Done => \A i \in 1..Len(Rows) : Rows[i].deficit = 0

\* C5, amended: the deficit is 0 on every row when currentBalance is not
\* negative, and for any starting balance on every obligation row and on
\* every row that follows an obligation row.
C5_DeficitZeroOnceClamped ==
    Done => \A i \in 1..Len(Rows) :
        (\/ input.currentBalance >= 0
         \/ \E j \in 1..i : ~Rows[j].isIncome) => Rows[i].deficit = 0

\* A balance that is not negative, an obligation it cannot cover, and a
\* deposit after it.
C5_Witness ==
    /\ Done /\ input.currentBalance >= 0
    /\ \E i \in 1..Len(Rows) :
          /\ ~Rows[i].isIncome /\ Rows[i].requiredPayment > 0
          /\ \E j \in (i + 1)..Len(Rows) : Rows[j].isIncome

NoInstallments ==
    /\ result.accontiDetails.isNewBusiness
    /\ result.iresFirstAcconto = 0 /\ result.iresSecondAcconto = 0
    /\ result.irapFirstAcconto = 0 /\ result.irapSecondAcconto = 0
    /\ \A i \in 1..Len(result.calendar2025) :
          result.calendar2025[i].category \notin {"IRES", "IRAP"}

\* C6, as stated: when the resolved start year equals the resolved fiscal
\* year there are no installments (isNewBusiness, four amounts 0, no IRES or
\* IRAP entry); when the start year is earlier than the fiscal year
\* isNewBusiness is false.
C6_Original ==
    Done => /\ income.startYear = Num(result.fiscalYear) => NoInstallments
            /\ (income.startYear # NaN /\ income.startYear[1] < result.fiscalYear)
                  => ~result.accontiDetails.isNewBusiness

\* C6, amended: the same with the year 2025 in the place of the fiscal year:
\* a resolved start year of 2025 gives no installments, whatever fiscalYear
\* is, and a start year before 2025 gives isNewBusiness false.
C6_NewBusinessIn2025 ==
    Done => /\ income.startYear = Num(2025) => NoInstallments
            /\ (income.startYear # NaN /\ income.startYear[1] < 2025)
                  => ~result.accontiDetails.isNewBusiness

\* Started in 2025 with another fiscal year, taxes due, and no installments.
C6_Witness ==
    /\ Done /\ income.startYear = Num(2025) /\ result.fiscalYear # 2025
    /\ result.iresAmount > 0 /\ result.irapAmount > 0
    /\ NoInstallments

Unparseable(inp) ==
    /\ inp.startYear = Absent
    /\ inp.startDate # Absent /\ inp.startDate[1] # ""
    /\ DateParse(inp.startDate[1]) = NaN

\* C7, as stated: with no startYear and a startDate that cannot be parsed the
\* result is the one for an input with neither field: isNewBusiness true and
\* the four installments 0.
C7_UnparseableFallsBack ==
    (Done /\ Unparseable(input)) =>
        /\ result = calculateSRLTaxes([input EXCEPT !.startDate = Absent], today)
        /\ result.accontiDetails.isNewBusiness
        /\ result.iresFirstAcconto = 0 /\ result.iresSecondAcconto = 0
        /\ result.irapFirstAcconto = 0 /\ result.irapSecondAcconto = 0

RECURSIVE SumAmounts(_)
SumAmounts(seq) == IF seq = << >> THEN 0 ELSE Head(seq).amount + SumAmounts(Tail(seq))

EqualAmounts(seq) == \A i, j \in 1..Len(seq) : seq[i].amount = seq[j].amount

ExpectedDeadlines(regime) ==
    IF regime = "TRIMESTRALE" THEN 4 ELSE IF regime = "MENSILE" THEN 12 ELSE 0

\* C8: vatDeadlines has four equal entries for TRIMESTRALE and twelve for
\* MENSILE, adding up to vatAmount within a cent per entry; for any other
\* regime vatDeadlines is empty and calendar2025 has no IVA entry.
C8_VatDeadlines ==
    Done => /\ Len(result.vatDeadlines) = ExpectedDeadlines(input.vatRegime)
            /\ EqualAmounts(result.vatDeadlines)
            /\ Len(result.vatDeadlines) > 0 =>
                  Abs(SumAmounts(result.vatDeadlines) - result.vatAmount)
                     <= Cent(Len(result.vatDeadlines))
            /\ Len(result.vatDeadlines) = 0 =>
                  \A i \in 1..Len(result.calendar2025) :
                      result.calendar2025[i].category # "IVA"

\* A monthly regime whose twelve rounded entries do not add up exactly.
C8_Witness ==
    /\ Done /\ input.vatRegime = "MENSILE" /\ result.vatAmount > 0
    /\ Len(result.vatDeadlines) = 12
    /\ SumAmounts(result.vatDeadlines) # result.vatAmount

\* An unrecognised regime with VAT due: no deadline at all.
C8_WitnessUnknownRegime ==
    /\ Done /\ input.vatRegime \notin {"TRIMESTRALE", "MENSILE"}
    /\ result.vatAmount > 0 /\ result.vatDeadlines = << >>

\* An amount with at most two decimals.
TwoDecimals(x) == x % 10 = 0

TopLevelAmounts ==
    {result.grossProfit, result.taxableIncome, result.taxableIncomeAfterLosses,
     result.iresAmount, result.irapBase, result.irapDeductions,
     result.irapTaxableIncome, result.irapAmount, result.lossesUsed,
     result.remainingLosses, result.superDeductionAmount,
     result.rolDetails.rolFiscale, result.rolDetails.interessiAttiviTotali,
     result.rolDetails.interessiPassiviDeducibili,
     result.rolDetails.interessiPassiviIndeducibili, result.rolDetails.limitROL,
     result.vatOnSales, result.vatOnPurchases, result.vatAmount, result.vatQuarterly,
     result.inpsAdmin, result.inpsEmployees, result.inpsTotalAmount,
     result.totalTaxes, result.totalDue,
     result.iresFirstAcconto, result.iresSecondAcconto,
     result.irapFirstAcconto, result.irapSecondAcconto,
     result.monthlyAccrual, result.quarterlyPayments}

\* C11, as stated: every currency figure of the result has two decimals: the
\* top-level amounts, the amounts of vatDeadlines, the amounts of
\* calendar2025, and amount, previousBalance, newBalance, deficit and
\* requiredPayment of every paymentSchedule row.
C11_AllFiguresRounded ==
    Done => /\ \A x \in TopLevelAmounts : TwoDecimals(x)
            /\ \A i \in 1..Len(result.vatDeadlines) :
                  TwoDecimals(result.vatDeadlines[i].amount)
            /\ \A i \in 1..Len(result.calendar2025) :
                  TwoDecimals(result.calendar2025[i].amount)
            /\ \A i \in 1..Len(Rows) :
                  /\ TwoDecimals(Rows[i].amount)
                  /\ TwoDecimals(Rows[i].previousBalance)
                  /\ TwoDecimals(Rows[i].newBalance)
                  /\ TwoDecimals(Rows[i].deficit)
                  /\ TwoDecimals(Rows[i].requiredPayment)

\* The part of C11 the code does keep: everything but the amounts of
\* calendar2025 and the amount of the schedule rows.
C11_RoundedExceptEventAmounts ==
    Done => /\ \A x \in TopLevelAmounts : TwoDecimals(x)
            /\ \A i \in 1..Len(result.vatDeadlines) :
                  TwoDecimals(result.vatDeadlines[i].amount)
            /\ \A i \in 1..Len(Rows) :
                  /\ TwoDecimals(Rows[i].previousBalance)
                  /\ TwoDecimals(Rows[i].newBalance)
                  /\ TwoDecimals(Rows[i].deficit)
                  /\ TwoDecimals(Rows[i].requiredPayment)

\* C12, as stated: a supplied vatOnSales (vatOnPurchases), an explicit 0
\* included, is the vatOnSales (vatOnPurchases) of the result; the 22% of
\* revenue (costs) is used only when the field is absent.
C12_ExplicitVatKept ==
    Done => /\ IF input.vatOnSales # Absent
               THEN result.vatOnSales = Round2(input.vatOnSales[1])
               ELSE result.vatOnSales = Round2(Mul(input.revenue, 11, 50))
            /\ IF input.vatOnPurchases # Absent
               THEN result.vatOnPurchases = Round2(input.vatOnPurchases[1])
               ELSE result.vatOnPurchases = Round2(Mul(input.costs, 11, 50))

\* The part of C12 the code does keep: a supplied amount other than 0 is
\* taken as it is, and an absent one is estimated.
C12_NonZeroVatKept ==
    Done => /\ Truthy(input.vatOnSales) =>
                  result.vatOnSales = Round2(input.vatOnSales[1])
            /\ input.vatOnSales = Absent =>
                  result.vatOnSales = Round2(Mul(input.revenue, 11, 50))
            /\ Truthy(input.vatOnPurchases) =>
                  result.vatOnPurchases = Round2(input.vatOnPurchases[1])
            /\ input.vatOnPurchases = Absent =>
                  result.vatOnPurchases = Round2(Mul(input.costs, 11, 50))

\* The calendar day (UTC) of a time value.
DayOf(t) == t \div 2

\* A date that is the processing date or a later one.
OnOrAfterProcessingDate(date) == DayOf(DateTime(date)) >= DayOf(today)

DepositRows(month) ==
    {i \in 1..Len(Rows) : Rows[i].isIncome /\ Rows[i].date = <<1, month, result.fiscalYear>>}

ObligationRows == {i \in 1..Len(Rows) : ~Rows[i].isIncome}

QualifyingEntries ==
    {i \in 1..Len(result.calendar2025) :
        OnOrAfterProcessingDate(result.calendar2025[i].date)}

RowOfEntry(row, entry) ==
    /\ ~row.isIncome
    /\ row.date = entry.date /\ row.amount = entry.amount
    /\ row.type = entry.type /\ row.category = entry.category

\* C13, as stated: paymentSchedule has exactly one deposit row (ACCUMULO,
\* totalDue / 12) for each month of the fiscal year whose first day is on or
\* after the processing date and one obligation row for each calendar2025
\* entry dated on or after the processing date; no row is dated before the
\* processing date and no qualifying entry is left out.
C13_ScheduleCoversFutureEvents ==
    Done =>
        /\ \A month \in 1..12 :
              Cardinality(DepositRows(month)) =
                 (IF OnOrAfterProcessingDate(<<1, month, result.fiscalYear>>) THEN 1 ELSE 0)
        /\ \A i \in 1..Len(Rows) :
              Rows[i].isIncome =>
                 /\ Rows[i].category = "ACCUMULO"
                 /\ Rows[i].amount = acconti.monthlyAccrual
                 /\ \E month \in 1..12 : i \in DepositRows(month)
        /\ Cardinality(ObligationRows) = Cardinality(QualifyingEntries)
        /\ \A i \in QualifyingEntries :
              \E j \in ObligationRows : RowOfEntry(Rows[j], result.calendar2025[i])
        /\ \A i \in 1..Len(Rows) : OnOrAfterProcessingDate(Rows[i].date)

\* The filter the code applies: an event is replayed when the midnight (UTC)
\* that begins its date is not earlier than the processing instant, so an
\* event dated on the processing day is replayed only at that midnight exactly.
C13_ScheduleCoversEventsFromInstant ==
    Done =>
        /\ \A month \in 1..12 :
              Cardinality(DepositRows(month)) =
                 (IF DateTime(<<1, month, result.fiscalYear>>) >= today THEN 1 ELSE 0)
        /\ Cardinality(ObligationRows) =
              Cardinality({i \in 1..Len(result.calendar2025) :
                              DateTime(result.calendar2025[i].date) >= today})
        /\ \A i \in 1..Len(result.calendar2025) :
              DateTime(result.calendar2025[i].date) >= today =>
                 \E j \in ObligationRows : RowOfEntry(Rows[j], result.calendar2025[i])
        /\ \A i \in 1..Len(Rows) : DateTime(Rows[i].date) >= today

\* C14: the previousBalance of the first row is currentBalance rounded to
\* two decimals, and the previousBalance of every later row is the
\* newBalance of the row before it.
C14_BalanceContinuity ==
    Done => /\ Len(Rows) > 0 => Rows[1].previousBalance = Round2(input.currentBalance)
            /\ \A i \in 2..Len(Rows) : Rows[i].previousBalance = Rows[i - 1].newBalance

\* A starting balance with a fraction of a cent, and a schedule in which a
\* deposit, a covered obligation and a clamped obligation change the balance.
C14_Witness ==
    /\ Done /\ ~TwoDecimals(input.currentBalance)
    /\ Len(Rows) >= 4
    /\ Rows[1].previousBalance # input.currentBalance
    /\ \E i \in 2..Len(Rows) : Rows[i].isIncome /\ Rows[i].newBalance # Rows[i].previousBalance
    /\ \E i \in 2..Len(Rows) :
          ~Rows[i].isIncome /\ Rows[i].requiredPayment = 0
            /\ Rows[i].newBalance # Rows[i].previousBalance
    /\ \E i \in 2..Len(Rows) : ~Rows[i].isIncome /\ Rows[i].requiredPayment > 0

====
